---- MODULE Spec2Model ----
(***************************************************************************)
(* State-machine model of the prediction-market dashboard front end:       *)
(*   - App (market list, exchange, search) with its two detail panels,     *)
(*     PriceChart and OrderBookView, and the api service they call;        *)
(*   - the two proxy handlers (api/proxy.js and its plain variant);        *)
(*   - StockDashboard (loadMarketData, analyzeStock);                      *)
(*   - AIInsights (fetchData and its loaders).                             *)
(* JavaScript runs handlers to completion, so every action is one handler  *)
(* run: the synchronous part of an async function up to its await, or the  *)
(* continuation after it, followed by the React renders and effects that   *)
(* the state changes cause.                                                *)
(***************************************************************************)
EXTENDS Integers, Sequences, FiniteSets, Bags, TLC

\* ------------------------------------------------------------------ bounds
\* Requests App and its panels may have in flight at the same time.
MaxInFlight == 2
\* Most path segments of a request to the proxy.
MaxUrlSegments == 2
\* loadMarketData invocations of a behaviour.
MaxLoads == 2
\* analyzeStock invocations awaiting at the same time.
MaxAnalyses == 2
\* Steps of the clock in the 45 seconds of the analysis timeout.
TicksPerTimeout == 3
\* Tabs of the insights panel a behaviour opens.
MaxTabsVisited == 2

\* The messages a behaviour submits to a chat.
MaxChatTurns == 2

\* ---------------------------------------------------------------- constants
\* setTimeout(() => controller.abort(), 45000)
AnalysisTimeoutMs == 45000

\* ------------------------------------------------------------- basic values
\* JavaScript null, for the string-valued state (error, selectedOutcome).
null == "null"

\* `!x` for a string or null x: null and the empty string are falsy.
Falsy(s) == s = null \/ s = ""

Exchanges == {"polymarket", "kalshi"}

\* ------------------------------------------------------------ the back end
\* The back end is opaque: what it holds is fixed data, what it answers is a
\* nondeterministic choice among the envelopes below.
Outcome(i) == [id |-> i]

NoMarket == [id |-> null, outcomes |-> <<>>]

\* Three outcomes (only two get a tab), one, one whose id is the empty
\* string, and none.
P1 == [id |-> "p1", outcomes |-> <<Outcome("a"), Outcome("b"), Outcome("c")>>]
P2 == [id |-> "p2", outcomes |-> <<Outcome("d")>>]
K1 == [id |-> "k1", outcomes |-> <<Outcome("")>>]
K2 == [id |-> "k2", outcomes |-> <<>>]

FetchMarketsData(exch) ==
    IF exch = "polymarket" THEN <<P1, P2>> ELSE <<K1, K2>>

SearchMarketsData(exch, q) ==
    IF exch = "polymarket" THEN <<P2>> ELSE <<K2>>

OHLCVData(exch, outcomeId) == <<[exchange |-> exch, outcome |-> outcomeId]>>

NoBook == [exchange |-> null, outcome |-> null]

OrderBookData(exch, outcomeId) == [exchange |-> exch, outcome |-> outcomeId]

\* ApiResponse<T>: {success, data, error?: {message}}; error absent is NoError.
NoError == [present |-> FALSE, message |-> ""]
ErrorOf(m) == [present |-> TRUE, message |-> m]

Envelope(s, d, e) == [success |-> s, data |-> d, error |-> e]

\* What a call can come back with: the transport throws, or an envelope.
Thrown(m) == [threw |-> TRUE, isError |-> TRUE, message |-> m]
Answered(env) == [threw |-> FALSE, envelope |-> env]

BackendMessages == {"backend says no", ""}

Replies(data, nothing) ==
    {Thrown("Network Error")}
    \cup {Answered(Envelope(TRUE, data, NoError))}
    \cup {Answered(Envelope(FALSE, nothing, NoError))}
    \cup {Answered(Envelope(FALSE, nothing, ErrorOf(m))) : m \in BackendMessages}

\* Faulty variant: a ?? b, which keeps an empty string.
OrElse_NullOnly(a, b) == IF a = null THEN b ELSE a

\* ------------------------------------------------------ services/api (market.ts)
\* `a || b` on strings.
OrElse(a, b) == IF Falsy(a) THEN b ELSE a

\* response.data.error?.message
ErrorMessage(env) == IF env.error.present THEN env.error.message ELSE null

Returned(d) == [threw |-> FALSE, data |-> d]

\* The tail shared by fetchMarkets, searchMarkets, fetchOHLCV, fetchOrderBook:
\* a transport failure propagates, success:false throws, otherwise data.
Unwrap(reply, defaultMessage) ==
    IF reply.threw THEN reply
    ELSE IF ~reply.envelope.success
         THEN Thrown(OrElse(ErrorMessage(reply.envelope), defaultMessage))
         ELSE Returned(reply.envelope.data)

fetchMarkets(reply) == Unwrap(reply, "Failed to fetch markets")
searchMarkets(reply) == Unwrap(reply, "Failed to search markets")
fetchOHLCV(reply) == Unwrap(reply, "Failed to fetch OHLCV")
fetchOrderBook(reply) == Unwrap(reply, "Failed to fetch order book")

\* err instanceof Error ? err.message : fallback
CaughtMessage(err, fallback) == IF err.isError THEN err.message ELSE fallback

\* ---------------------------------------------------------------- SearchBar
\* What is typed into the search box: nothing, white space, a word, and a word
\* after white space.
Queries == {<<>>, <<" ">>, <<"b">>, <<" ", "b">>}

IsSpace(c) == c = " "

RECURSIVE TrimStart(_)
TrimStart(s) ==
    IF s = <<>> THEN s
    ELSE IF IsSpace(Head(s)) THEN TrimStart(Tail(s)) ELSE s

RECURSIVE TrimEnd(_)
TrimEnd(s) ==
    IF s = <<>> THEN s
    ELSE IF IsSpace(s[Len(s)]) THEN TrimEnd(SubSeq(s, 1, Len(s) - 1)) ELSE s

\* String.prototype.trim
Trim(s) == TrimEnd(TrimStart(s))

VARIABLES
    \* App
    appMounted, exchange, markets, selectedMarket, loading, error, appInFlight,
    \* PriceChart and OrderBookView: panel[p] is the component's state
    panel,
    \* the panels whose state a behaviour follows (the panels share no state)
    tracked,
    \* proxy: the request being handled: what came in, where the handler is,
    \* what it sent upstream, what came back and what it answered
    proxy,
    \* StockDashboard: the component's state, the loadMarketData invocations
    \* awaiting (by serial), the serial of the last one, the analyzeStock
    \* invocations awaiting, and what the behaviour follows in detail
    dashboard, marketLoads, loadSerial, analyses, dashFollows,
    \* AIInsights: the component's state and props, its requests in flight,
    \* and the tabs the user has opened
    insights, insightsInFlight, visitedTabs,
    \* StockDashboard's search section: searchQuery, searchResults and
    \* searchLoading, and the quote requests in flight
    search, searchInFlight,
    \* StockDashboard's chat: chatMessages, chatInput and chatLoading, and the
    \* chat requests in flight
    chat, chatInFlight,
    \* AIChat: its state and props, and its requests in flight
    aiChat, aiChatInFlight,
    \* The repository has several entry points that share no state (the
    \* market dashboard, the proxy functions, the stock dashboard, the
    \* insights panel): the one a behaviour follows.
    root

appVars == <<appMounted, exchange, markets, selectedMarket, loading, error,
             appInFlight, panel, tracked>>

proxyVars == <<proxy>>

stockVars == <<dashboard, marketLoads, loadSerial, analyses, dashFollows>>

insightsVars == <<insights, insightsInFlight, visitedTabs>>

searchVars == <<search, searchInFlight>>

chatVars == <<chat, chatInFlight>>

aiChatVars == <<aiChat, aiChatInFlight>>

assistVars == <<searchVars, chatVars, aiChatVars>>

vars == <<root, appVars, proxyVars, stockVars, insightsVars, assistVars>>

\* What a step of one entry point leaves alone.
AppFrame ==
    root = "App" /\ UNCHANGED <<root, proxyVars, stockVars, insightsVars, assistVars>>

ProxyFrame ==
    root = "proxy" /\ UNCHANGED <<root, appVars, stockVars, insightsVars, assistVars>>

StockFrame ==
    /\ root = "StockDashboard"
    /\ UNCHANGED <<root, appVars, proxyVars, insightsVars, assistVars>>

SearchFrame ==
    /\ root = "StockSearch"
    /\ UNCHANGED <<root, appVars, proxyVars, stockVars, insightsVars, chatVars, aiChatVars>>

ChatFrame ==
    /\ root = "StockChat"
    /\ UNCHANGED <<root, appVars, proxyVars, stockVars, insightsVars, searchVars, aiChatVars>>

AIChatFrame ==
    /\ root = "AIChat"
    /\ UNCHANGED <<root, appVars, proxyVars, stockVars, insightsVars, searchVars, chatVars>>

InsightsFrame ==
    /\ root \in {"AIInsights", "AIInsightsPage"}
    /\ UNCHANGED <<root, appVars, proxyVars, stockVars, assistVars>>

\* ------------------------------------------------- PriceChart, OrderBookView
Panels == {"PriceChart", "OrderBookView"}

\* useState initial values: candles [] and orderBook null.
EmptyResult(p) == IF p = "PriceChart" THEN <<>> ELSE NoBook

InitialPanel(p) ==
    [selectedOutcome |-> null, data |-> EmptyResult(p), loading |-> FALSE,
     error |-> null, inFlight |-> EmptyBag]

PanelRequest(exch, outcomeId) == [exchange |-> exch, outcome |-> outcomeId]

\* market.outcomes.length > 0 ? market.outcomes[0].id : null
FirstOutcome(m) == IF Len(m.outcomes) > 0 THEN m.outcomes[1].id ELSE null

\* loadCandles / loadOrderBook up to the await.
loadPanelStart(st, exch) ==
    [st EXCEPT !.loading = TRUE,
               !.error = null,
               !.inFlight = @ (+) SetToBag({PanelRequest(exch, st.selectedOutcome)})]

\* Faulty variant: the fetch effect without its early return.
FetchEffect_NoGuard(st, exch) == loadPanelStart(st, exch)

\* The second effect, deps [selectedOutcome, exchange].
FetchEffect(st, exch) ==
    IF Falsy(st.selectedOutcome) THEN st ELSE loadPanelStart(st, exch)

\* Faulty variant: the reset picks the last outcome instead of the first.
ResetEffect_Last(m) ==
    IF Len(m.outcomes) > 0 THEN m.outcomes[Len(m.outcomes)].id ELSE null

\* The first effect, deps [market.id]: the outcome it asks React to set.
ResetEffect(m) == FirstOutcome(m)

\* Faulty variant: the fetch effect depends on [selectedOutcome] alone.
PanelUpdate_NoExchangeDep(st, oldM, oldE, newM, newE) ==
    LET marketChanged == newM.id # oldM.id
        sel1 == IF marketChanged THEN ResetEffect(newM) ELSE st.selectedOutcome
        s2   == [st EXCEPT !.selectedOutcome = sel1]
    IN  IF sel1 # st.selectedOutcome THEN FetchEffect(s2, newE) ELSE s2

\* Faulty variant: the fetch effect without a dependency array, run again
\* after every render of the panel.
PanelUpdate_NoDeps(st, oldM, oldE, newM, newE) ==
    LET marketChanged == newM.id # oldM.id
        sel1 == IF marketChanged THEN ResetEffect(newM) ELSE st.selectedOutcome
        s1   == FetchEffect(st, newE)
        s2   == [s1 EXCEPT !.selectedOutcome = sel1]
    IN  IF sel1 # st.selectedOutcome THEN FetchEffect(s2, newE) ELSE s2

\* A mounted panel whose props go from (oldM, oldE) to (newM, newE): the commit
\* runs the effects whose deps changed, with the state of that render; the
\* setSelectedOutcome of the first effect causes a second render, whose commit
\* runs the fetch effect when selectedOutcome changed.
PanelUpdate(st, oldM, oldE, newM, newE) ==
    LET marketChanged == newM.id # oldM.id
        exchChanged   == newE # oldE
        sel1 == IF marketChanged THEN ResetEffect(newM) ELSE st.selectedOutcome
        s1   == IF exchChanged THEN FetchEffect(st, newE) ELSE st
        s2   == [s1 EXCEPT !.selectedOutcome = sel1]
    IN  IF sel1 # st.selectedOutcome THEN FetchEffect(s2, newE) ELSE s2

\* Mounting: fresh state, and every effect runs in the first commit.
PanelMount(p, newM, newE) ==
    LET st   == InitialPanel(p)
        sel1 == ResetEffect(newM)
        s1   == FetchEffect(st, newE)
        s2   == [s1 EXCEPT !.selectedOutcome = sel1]
    IN  IF sel1 # st.selectedOutcome THEN FetchEffect(s2, newE) ELSE s2

\* App renders the panels only while selectedMarket is set; an unmounted
\* panel's state is gone, and the responses to its requests change nothing.
PanelRender(p, st, oldM, oldE, newM, newE) ==
    IF newM = NoMarket THEN InitialPanel(p)
    ELSE IF oldM = NoMarket THEN PanelMount(p, newM, newE)
    ELSE PanelUpdate(st, oldM, oldE, newM, newE)

PanelsAfter(newM, newE) ==
    [p \in Panels |->
        IF p \in tracked
        THEN PanelRender(p, panel[p], selectedMarket, exchange, newM, newE)
        ELSE InitialPanel(p)]

\* The bound of the model on the requests in flight.
Fits(app, ps) ==
    BagCardinality(app) + BagCardinality(ps["PriceChart"].inFlight)
        + BagCardinality(ps["OrderBookView"].inFlight) <= MaxInFlight

\* ---------------------------------------------------------------------- App
AppRequest(k, exch, q) == [kind |-> k, exchange |-> exch, query |-> q]

AppInit(follows) ==
    /\ appMounted = FALSE
    /\ exchange = "polymarket"
    /\ markets = <<>>
    /\ selectedMarket = NoMarket
    /\ loading = TRUE
    /\ error = null
    /\ appInFlight = EmptyBag
    /\ panel = [p \in Panels |-> InitialPanel(p)]
    /\ tracked = follows

\* loadMarkets up to the await.
loadMarketsStart(exch) ==
    /\ loading' = TRUE
    /\ error' = null
    /\ appInFlight' = appInFlight (+) SetToBag({AppRequest("fetchMarkets", exch, <<>>)})

\* useEffect(() => loadMarkets(exchange), [])
AppMount ==
    /\ ~appMounted
    /\ appMounted' = TRUE
    /\ loadMarketsStart(exchange)
    /\ Fits(appInFlight', panel)
    /\ UNCHANGED <<exchange, markets, selectedMarket, panel, tracked>>
    /\ AppFrame

\* The Retry button of the error banner.
Retry ==
    /\ appMounted
    /\ error # null
    /\ loadMarketsStart(exchange)
    /\ Fits(appInFlight', panel)
    /\ UNCHANGED <<appMounted, exchange, markets, selectedMarket, panel, tracked>>
    /\ AppFrame

\* Faulty variant: the blank test without trim().
handleSearch_NoTrim(q) ==
    IF q = <<>>
    THEN loadMarketsStart(exchange)
    ELSE /\ loading' = TRUE
         /\ error' = null
         /\ appInFlight' =
                appInFlight (+) SetToBag({AppRequest("searchMarkets", exchange, q)})

\* handleSearch up to its await.
handleSearch(q) ==
    IF Trim(q) = <<>>
    THEN loadMarketsStart(exchange)
    ELSE /\ loading' = TRUE
         /\ error' = null
         /\ appInFlight' =
                appInFlight (+) SetToBag({AppRequest("searchMarkets", exchange, q)})

\* SearchBar.handleSubmit with q typed into the box: onSearch(query).
handleSubmit(q) ==
    /\ appMounted
    /\ handleSearch(q)
    /\ Fits(appInFlight', panel)
    /\ UNCHANGED <<appMounted, exchange, markets, selectedMarket, panel, tracked>>
    /\ AppFrame

handleExchangeChange(exch) ==
    /\ appMounted
    /\ exchange' = exch
    /\ loadMarketsStart(exch)
    /\ panel' = PanelsAfter(selectedMarket, exch)
    /\ Fits(appInFlight', panel')
    /\ UNCHANGED <<appMounted, markets, selectedMarket, tracked>>
    /\ AppFrame

\* A click on a market card: onSelectMarket = setSelectedMarket.
SelectMarket(i) ==
    /\ appMounted
    /\ i \in 1..Len(markets)
    /\ selectedMarket' = markets[i]
    /\ panel' = PanelsAfter(markets[i], exchange)
    /\ Fits(appInFlight, panel')
    /\ UNCHANGED <<appMounted, exchange, markets, loading, error, appInFlight, tracked>>
    /\ AppFrame

\* What the request's call resolves to, given the back end's reply.
AppCall(r, reply) ==
    IF r.kind = "fetchMarkets" THEN fetchMarkets(reply) ELSE searchMarkets(reply)

AppData(r) ==
    IF r.kind = "fetchMarkets"
    THEN FetchMarketsData(r.exchange)
    ELSE SearchMarketsData(r.exchange, r.query)

AppFallback(r) ==
    IF r.kind = "fetchMarkets" THEN "Failed to load markets" ELSE "Search failed"

\* Faulty variant: a successful completion appends to the list it had.
MarketsSettled_Merges(r, reply) ==
    LET res == AppCall(r, reply)
    IN  /\ BagIn(r, appInFlight)
        /\ appInFlight' = appInFlight (-) SetToBag({r})
        /\ IF ~res.threw
           THEN /\ markets' = markets \o res.data
                /\ selectedMarket' = NoMarket
                /\ error' = error
           ELSE /\ error' = CaughtMessage(res, AppFallback(r))
                /\ markets' = <<>>
                /\ selectedMarket' = selectedMarket
        /\ loading' = FALSE
        /\ panel' = PanelsAfter(selectedMarket', exchange)
        /\ UNCHANGED <<appMounted, exchange, tracked>>
        /\ AppFrame

\* The continuation of loadMarkets / handleSearch after the await:
\* try tail, or catch, then finally.
MarketsSettled(r, reply) ==
    LET res == AppCall(r, reply)
    IN  /\ BagIn(r, appInFlight)
        /\ appInFlight' = appInFlight (-) SetToBag({r})
        /\ IF ~res.threw
           THEN /\ markets' = res.data
                /\ selectedMarket' = NoMarket
                /\ error' = error
           ELSE /\ error' = CaughtMessage(res, AppFallback(r))
                /\ markets' = <<>>
                /\ selectedMarket' = selectedMarket
        /\ loading' = FALSE
        /\ panel' = PanelsAfter(selectedMarket', exchange)
        /\ UNCHANGED <<appMounted, exchange, tracked>>
        /\ AppFrame

\* Faulty variant: a click on the tab of the selected outcome fetches again.
SelectOutcome_AlwaysFetches(p, i) ==
    /\ selectedMarket # NoMarket
    /\ i \in 1..Len(selectedMarket.outcomes)
    /\ i <= 2
    /\ LET o  == selectedMarket.outcomes[i].id
           st == [panel[p] EXCEPT !.selectedOutcome = o]
       IN  /\ panel' = [panel EXCEPT ![p] = FetchEffect(st, exchange)]
           /\ Fits(appInFlight, panel')
    /\ UNCHANGED <<appMounted, exchange, markets, selectedMarket, loading, error,
                   appInFlight, tracked>>
    /\ AppFrame

\* An outcome tab of a panel: setSelectedOutcome(outcome.id); the tabs are
\* market.outcomes.slice(0, 2).
SelectOutcome(p, i) ==
    /\ selectedMarket # NoMarket
    /\ i \in 1..Len(selectedMarket.outcomes)
    /\ i <= 2
    /\ LET o  == selectedMarket.outcomes[i].id
           st == [panel[p] EXCEPT !.selectedOutcome = o]
       IN  /\ panel' = [panel EXCEPT ![p] =
                           IF o = panel[p].selectedOutcome THEN panel[p]
                           ELSE FetchEffect(st, exchange)]
           /\ Fits(appInFlight, panel')
    /\ UNCHANGED <<appMounted, exchange, markets, selectedMarket, loading, error,
                   appInFlight, tracked>>
    /\ AppFrame

PanelCall(p, reply) ==
    IF p = "PriceChart" THEN fetchOHLCV(reply) ELSE fetchOrderBook(reply)

PanelData(p, r) ==
    IF p = "PriceChart"
    THEN OHLCVData(r.exchange, r.outcome)
    ELSE OrderBookData(r.exchange, r.outcome)

PanelFallback(p) ==
    IF p = "PriceChart" THEN "Failed to load chart data" ELSE "Failed to load order book"

\* Faulty variant: the catch block forgets to clear the result.
PanelSettle_KeepsData(p, st, r, res) ==
    [st EXCEPT !.inFlight = @ (-) SetToBag({r}),
               !.data = IF res.threw THEN @ ELSE res.data,
               !.error = IF res.threw THEN CaughtMessage(res, PanelFallback(p)) ELSE @,
               !.loading = FALSE]

\* Faulty variant: a response to a request that is no longer the current selection
\* is dropped.
PanelSettle_DropsStale(p, st, r, res) ==
    IF r = PanelRequest(exchange, st.selectedOutcome)
    THEN [st EXCEPT !.inFlight = @ (-) SetToBag({r}),
                    !.data = IF res.threw THEN EmptyResult(p) ELSE res.data,
                    !.error = IF res.threw
                              THEN CaughtMessage(res, PanelFallback(p)) ELSE @,
                    !.loading = FALSE]
    ELSE [st EXCEPT !.inFlight = @ (-) SetToBag({r})]

\* The state of a panel after the continuation of loadCandles / loadOrderBook.
PanelSettle(p, st, r, res) ==
    [st EXCEPT !.inFlight = @ (-) SetToBag({r}),
               !.data = IF res.threw THEN EmptyResult(p) ELSE res.data,
               !.error = IF res.threw THEN CaughtMessage(res, PanelFallback(p)) ELSE @,
               !.loading = FALSE]

PanelSettled(p, r, reply) ==
    /\ BagIn(r, panel[p].inFlight)
    /\ panel' = [panel EXCEPT ![p] = PanelSettle(p, panel[p], r, PanelCall(p, reply))]
    /\ UNCHANGED <<appMounted, exchange, markets, selectedMarket, loading, error,
                   appInFlight, tracked>>
    /\ AppFrame

AppNext ==
    \/ AppMount
    \/ Retry
    \/ \E q \in Queries : handleSubmit(q)
    \/ \E e \in Exchanges : handleExchangeChange(e)
    \/ \E i \in 1..2 : SelectMarket(i)
    \/ \E r \in BagToSet(appInFlight) :
          \E reply \in Replies(AppData(r), <<>>) : MarketsSettled(r, reply)
    \/ \E p \in tracked : \E i \in 1..2 : SelectOutcome(p, i)
    \/ \E p \in tracked : \E r \in BagToSet(panel[p].inFlight) :
          \E reply \in Replies(PanelData(p, r), EmptyResult(p)) : PanelSettled(p, r, reply)



\* ==================================================================== proxy
\* The two serverless handlers: api/proxy.js ("cors") and its plain variant.
Variants == {"cors", "plain"}

Methods == {"GET", "POST", "HEAD", "OPTIONS"}

\* req.body: absent, or a parsed payload.
undefined == "undefined"

RequestBodies == {undefined, "payload"}

\* Paths are sequences of characters and segments: "/api/proxy/x" is
\* <<"/", "api", "/", "proxy", "/", "x">>.
Segments == {"api", "proxy", "x"}

RECURSIVE PathOf(_)
PathOf(segs) ==
    IF segs = <<>> THEN <<>> ELSE <<"/", Head(segs)>> \o PathOf(Tail(segs))

Urls == {PathOf(segs) : segs \in UNION {[1..n -> Segments] : n \in 1..MaxUrlSegments}}

ProxyPrefix == <<"/", "api", "/", "proxy">>

StartsWith(s, prefix) ==
    Len(s) >= Len(prefix) /\ SubSeq(s, 1, Len(prefix)) = prefix

\* String.prototype.replace(pattern, ''): the first occurrence only.
RECURSIVE ReplaceFirst(_, _)
ReplaceFirst(s, pattern) ==
    IF s = <<>> THEN s
    ELSE IF StartsWith(s, pattern) THEN SubSeq(s, Len(pattern) + 1, Len(s))
    ELSE <<Head(s)>> \o ReplaceFirst(Tail(s), pattern)

BackendUrl == <<"http://ec2-13-126-81-152.ap-south-1.compute.amazonaws.com:3847">>

\* req.url.replace('/api/proxy', '') || '/', after BACKEND_URL.
TargetUrl(url) ==
    LET path == ReplaceFirst(url, ProxyPrefix)
    IN  BackendUrl \o (IF path = <<>> THEN <<"/">> ELSE path)

\* JSON texts are token sequences; the values here are literals, the empty
\* object, an object with one literal member, and the failure envelope.
Whitespace == " "

Literals == {"true", "false", "null"}

Keys == {"\"success\""}

Lit(v) == [t |-> "literal", v |-> v]
EmptyObject == [t |-> "object"]
Member(k, v) == [t |-> "member", k |-> k, v |-> v]
Failure(m) == [t |-> "failure", message |-> m]

ParseError == [ok |-> FALSE, message |-> "Unexpected token"]
Parsed(v) == [ok |-> TRUE, value |-> v]

StripWhitespace(text) == SelectSeq(text, LAMBDA tok : tok # Whitespace)

\* JSON.parse
JsonParse(text) ==
    LET toks == StripWhitespace(text)
    IN  IF Len(toks) = 1 /\ toks[1] \in Literals THEN Parsed(Lit(toks[1]))
        ELSE IF toks = <<"{", "}">> THEN Parsed(EmptyObject)
        ELSE IF /\ Len(toks) = 5
                /\ toks[1] = "{" /\ toks[2] \in Keys /\ toks[3] = ":"
                /\ toks[4] \in Literals /\ toks[5] = "}"
             THEN Parsed(Member(toks[2], toks[4]))
        ELSE ParseError

\* JSON.stringify
JsonStringify(v) ==
    IF v.t = "literal" THEN <<v.v>>
    ELSE IF v.t = "object" THEN <<"{", "}">>
    ELSE IF v.t = "member" THEN <<"{", v.k, ":", v.v, "}">>
    ELSE <<"{", "\"success\"", ":", "false", ",", "\"error\"", ":",
           "{", "\"message\"", ":", v.message, "}", "}">>

\* What the upstream can send as a body: JSON with and without white space,
\* a body that is no JSON, and no body at all.
UpstreamBodies ==
    { <<"{", "\"success\"", ":", "true", "}">>,
      <<"{", " ", "\"success\"", ":", " ", "false", " ", "}">>,
      <<" ", "null">>,
      <<"<html>">>,
      <<>> }

UpstreamStatuses == {200, 404, 502}

NoResponse == [status |-> 0, body |-> <<>>]

Idle ==
    [pc |-> "idle", variant |-> "cors", method |-> "GET", url |-> <<>>,
     body |-> undefined, upstream |-> <<>>,
     upstreamResponse |-> NoResponse, responses |-> <<>>]

ProxyInit == proxy = Idle

\* res.status(s).json(v) and res.status(s).end()
Send(st, status, text) ==
    [st EXCEPT !.responses = Append(@, [status |-> status, body |-> text]),
               !.pc = "done"]

\* Faulty variant: the catch block answers and then falls through to a second send.
SendError_Twice(st, message) ==
    Send(Send(st, 500, JsonStringify(Failure(message))),
         500, JsonStringify(Failure(message)))

\* catch (error): res.status(500).json({success: false, error: {message}})
SendError(st, message) == Send(st, 500, JsonStringify(Failure(message)))

\* The body option of the fetch: api/proxy.js leaves it out for GET and HEAD,
\* the plain variant for GET only; JSON.stringify(undefined) is undefined.
ForwardsBody(variant, method, body) ==
    /\ body # undefined
    /\ IF variant = "cors" THEN method \notin {"GET", "HEAD"} ELSE method # "GET"

\* Faulty variant: the preflight test is missing (every method is forwarded).
IsPreflight_Never(variant, method) == FALSE

\* if (req.method === 'OPTIONS'), which only api/proxy.js has.
IsPreflight(variant, method) == variant = "cors" /\ method = "OPTIONS"

\* The handler up to its first await.
ProxyStart(variant, method, url, body) ==
    LET st == [Idle EXCEPT !.variant = variant, !.method = method, !.url = url,
                           !.body = body]
        call == [url |-> TargetUrl(url), method |-> method,
                 hasBody |-> ForwardsBody(variant, method, body)]
    IN  IF IsPreflight(variant, method) THEN Send(st, 200, <<>>)
        ELSE IF call.hasBody /\ method \in {"GET", "HEAD"}
             \* fetch rejects a GET or HEAD request that has a body
             THEN SendError(st, "Request with GET/HEAD method cannot have body")
        ELSE [st EXCEPT !.pc = "fetching", !.upstream = Append(@, call)]

handler(variant, method, url, body) ==
    /\ proxy.pc \in {"idle", "done"}
    /\ proxy' = ProxyStart(variant, method, url, body)
    /\ ProxyFrame

\* await fetch(...) rejects: the network failed.
UpstreamFails ==
    /\ proxy.pc = "fetching"
    /\ proxy' = SendError(proxy, "fetch failed")
    /\ ProxyFrame

\* await fetch(...) resolves: the upstream answered.
UpstreamAnswers(status, text) ==
    /\ proxy.pc = "fetching"
    /\ proxy' = [proxy EXCEPT !.pc = "parsing",
                              !.upstreamResponse = [status |-> status, body |-> text]]
    /\ ProxyFrame

\* Faulty variant: the relay always answers 200.
RelayStatus_Always200(response) == 200

\* res.status(response.status)
RelayStatus(response) == response.status

\* await response.json(), then the relay, or the catch block.
Relay(st) ==
    LET data == JsonParse(st.upstreamResponse.body)
    IN  IF data.ok
        THEN Send(st, RelayStatus(st.upstreamResponse), JsonStringify(data.value))
        ELSE SendError(st, data.message)

BodyRead ==
    /\ proxy.pc = "parsing"
    /\ proxy' = Relay(proxy)
    /\ ProxyFrame

ProxyNext ==
    \/ \E v \in Variants, m \in Methods, u \in Urls, b \in RequestBodies :
          handler(v, m, u, b)
    \/ UpstreamFails
    \/ \E s \in UpstreamStatuses, t \in UpstreamBodies : UpstreamAnswers(s, t)
    \/ BodyRead

\* ============================================================ StockDashboard
\* Stocks the lists of the dashboard show.
Stocks == {"TCS", "INFY"}

\* selectedStock: StockQuote | null
NoStock == "none"

\* aiAnalysis: any = null, and an analysis of a stock.
NoAnalysis == [analysisOf |-> NoStock]

AnalysisData(stock) == [analysisOf |-> stock]

Sections == {"overview", "search", "ai"}

\* The five data states, in the order of the five requests of loadMarketData.
DataStates == {"nifty", "bankNifty", "marketStatus", "gainers", "losers"}

\* A data state nothing was loaded into: null (nifty, bankNifty) or [].
NoData == [load |-> 0]

\* What the back end holds changes between loads: the data of a response is
\* told apart by the load that asked for it.
DataOf(serial) == [load |-> serial]

\* The order in which loadMarketData tests the five parsed bodies.
DataOrder == <<"nifty", "bankNifty", "marketStatus", "gainers", "losers">>

\* One request of loadMarketData: fetch rejects, the body does not parse, the
\* body is the JSON text null (reading .success of it throws a TypeError), or
\* an envelope with success false or true.
LoadReplyKinds == {"rejected", "unparseable", "null", "failure", "success"}

\* What a behaviour follows in detail: the five data states under every
\* combination of the five responses (and then no stock is analysed), or the
\* analyses (and then the five requests of a load are answered alike).
Follows == {"loadMarketData", "analyzeStock"}

LoadReplies(follows) ==
    IF follows = "loadMarketData" THEN [DataStates -> LoadReplyKinds]
    ELSE {[d \in DataStates |-> k] : k \in LoadReplyKinds}

\* The state the component is constructed with.
InitialDashboard ==
    [mounted |-> FALSE, activeSection |-> "overview", loading |-> TRUE,
     error |-> null, data |-> [d \in DataStates |-> NoData],
     selectedStock |-> NoStock, aiAnalysis |-> NoAnalysis, aiLoading |-> FALSE,
     aiError |-> null]

DashboardInit(follows) ==
    /\ dashboard = InitialDashboard
    /\ marketLoads = {}
    /\ loadSerial = 0
    /\ analyses = EmptyBag
    /\ dashFollows = follows

\* Neither the loading screen nor the error screen is shown.
DashboardShown == dashboard.mounted /\ ~dashboard.loading /\ dashboard.error = null

\* loadMarketData up to its await: the flags, then the five requests at once.
loadMarketData ==
    /\ loadSerial < MaxLoads
    /\ dashboard' = [dashboard EXCEPT !.mounted = TRUE, !.loading = TRUE, !.error = null]
    /\ loadSerial' = loadSerial + 1
    /\ marketLoads' = marketLoads \cup {loadSerial + 1}
    /\ UNCHANGED <<analyses, dashFollows>>
    /\ StockFrame

\* useEffect(() => { loadMarketData(); }, [])
DashboardMount ==
    /\ ~dashboard.mounted
    /\ loadMarketData

\* The Retry button of the error screen.
DashboardRetry ==
    /\ dashboard.mounted /\ ~dashboard.loading /\ dashboard.error # null
    /\ loadMarketData

\* The Refresh button of the header.
DashboardRefresh ==
    /\ DashboardShown
    /\ loadMarketData

\* loadMarketData after its await: Promise.all rejects when one fetch does,
\* the five json() calls run before any setter, each setter runs when its own
\* envelope has success; catch sets the error; finally clears loading.
LoadOutcome(st, serial, replies) ==
    LET thrownAt == {i \in 1..Len(DataOrder) : replies[DataOrder[i]] = "null"}
        reached(d) == \A i \in thrownAt : \E j \in 1..(i - 1) : DataOrder[j] = d
        set == [st EXCEPT !.data = [d \in DataStates |->
                                      IF replies[d] = "success" /\ reached(d)
                                      THEN DataOf(serial) ELSE @[d]],
                          !.loading = FALSE]
    IN  IF \E d \in DataStates : replies[d] \in {"rejected", "unparseable"}
        THEN [st EXCEPT !.error = "Failed to load market data", !.loading = FALSE]
        ELSE IF thrownAt = {} THEN set
        ELSE [set EXCEPT !.error = "Failed to load market data"]

MarketDataSettled(serial, replies) ==
    /\ serial \in marketLoads
    /\ dashboard' = LoadOutcome(dashboard, serial, replies)
    /\ marketLoads' = marketLoads \ {serial}
    /\ UNCHANGED <<loadSerial, analyses, dashFollows>>
    /\ StockFrame

\* The three buttons of the navigation bar.
setActiveSection(section) ==
    /\ DashboardShown
    /\ dashboard' = [dashboard EXCEPT !.activeSection = section]
    /\ UNCHANGED <<marketLoads, loadSerial, analyses, dashFollows>>
    /\ StockFrame

\* One analyzeStock invocation awaiting: the stock, where it waits (for the
\* response headers, with its timer armed, or for the body, with its timer
\* cleared) and the time since its request was issued.
Analysis(stock, phase, age) == [stock |-> stock, phase |-> phase, age |-> age]

\* analyzeStock up to its await.
analyzeStock(stock) ==
    /\ BagCardinality(analyses) < MaxAnalyses
    /\ dashboard' = [dashboard EXCEPT !.selectedStock = stock,
                                      !.activeSection = "ai",
                                      !.aiLoading = TRUE,
                                      !.aiError = null,
                                      !.aiAnalysis = NoAnalysis]
    /\ analyses' = analyses (+) SetToBag({Analysis(stock, "fetch", 0)})
    /\ UNCHANGED <<marketLoads, loadSerial, dashFollows>>
    /\ StockFrame

\* A row of the gainers, losers or index lists of the overview.
ListedStockClicked(stock) ==
    /\ DashboardShown
    /\ dashFollows = "analyzeStock"
    /\ dashboard.activeSection = "overview"
    /\ \E d \in {"nifty", "gainers", "losers"} : dashboard.data[d] # NoData
    /\ analyzeStock(stock)

\* "Try Again" under the error, or "Analyze This Stock" when there is neither
\* an error nor an analysis.
AnalyzeSelectedStock ==
    /\ DashboardShown
    /\ dashFollows = "analyzeStock"
    /\ dashboard.activeSection = "ai"
    /\ dashboard.selectedStock # NoStock
    /\ ~dashboard.aiLoading
    /\ dashboard.aiError # null \/ dashboard.aiAnalysis = NoAnalysis
    /\ analyzeStock(dashboard.selectedStock)

TickMs == AnalysisTimeoutMs \div TicksPerTimeout

TimerDue(a) == a.phase = "fetch" /\ a.age >= AnalysisTimeoutMs

Older(a) ==
    [a EXCEPT !.age = IF @ > AnalysisTimeoutMs THEN @ ELSE @ + TickMs]

RECURSIVE BagOf(_)
BagOf(s) ==
    IF s = <<>> THEN EmptyBag ELSE SetToBag({Head(s)}) (+) BagOf(Tail(s))

RECURSIVE BagToSeq(_)
BagToSeq(b) ==
    IF b = EmptyBag THEN <<>>
    ELSE LET a == CHOOSE x \in BagToSet(b) : TRUE
         IN  <<a>> \o BagToSeq(b (-) SetToBag({a}))

\* Every pending analysis, one tick older.
Aged(b) ==
    LET s == BagToSeq(b) IN BagOf([i \in 1..Len(s) |-> Older(s[i])])

\* Time passes for every pending analysis; a timer that is due fires first.
Tick ==
    /\ analyses # EmptyBag
    /\ \A a \in BagToSet(analyses) : ~TimerDue(a)
    /\ analyses' = Aged(analyses)
    /\ analyses' # analyses
    /\ UNCHANGED <<dashboard, marketLoads, loadSerial, dashFollows>>
    /\ StockFrame

\* catch and finally of analyzeStock.
AnalysisCaught(st, errName) ==
    [st EXCEPT !.aiError =
                   IF errName = "AbortError"
                   THEN "Analysis timed out. Please try again."
                   ELSE "Failed to analyze stock. Please check your connection and try again.",
               !.aiLoading = FALSE]

\* await fetch(...) resolves with the response headers: clearTimeout(timeoutId)
AfterHeaders(a) == [a EXCEPT !.phase = "body"]

AnalysisHeaders(a) ==
    /\ a \in BagToSet(analyses)
    /\ a.phase = "fetch"
    /\ analyses' = (analyses (-) SetToBag({a})) (+) SetToBag({AfterHeaders(a)})
    /\ UNCHANGED <<dashboard, marketLoads, loadSerial, dashFollows>>
    /\ StockFrame

\* await fetch(...) rejects: the connection failed.
AnalysisFetchFails(a) ==
    /\ a \in BagToSet(analyses)
    /\ a.phase = "fetch"
    /\ dashboard' = AnalysisCaught(dashboard, "TypeError")
    /\ analyses' = analyses (-) SetToBag({a})
    /\ UNCHANGED <<marketLoads, loadSerial, dashFollows>>
    /\ StockFrame

\* setTimeout(() => controller.abort(), 45000): fetch rejects with AbortError.
AnalysisTimerFires(a) ==
    /\ a \in BagToSet(analyses)
    /\ TimerDue(a)
    /\ dashboard' = AnalysisCaught(dashboard, "AbortError")
    /\ analyses' = analyses (-) SetToBag({a})
    /\ UNCHANGED <<marketLoads, loadSerial, dashFollows>>
    /\ StockFrame

\* What reading the body can come back with: json() rejects, or an envelope
\* (with success true the data may still be missing).
AnalysisReplies(stock) ==
    (Replies(AnalysisData(stock), NoAnalysis) \ {Thrown("Network Error")})
    \cup {Thrown("Unexpected token"), Answered(Envelope(TRUE, NoAnalysis, NoError))}

\* await res.json() and what follows it.
AnalysisOutcome(st, reply) ==
    IF reply.threw THEN AnalysisCaught(st, "SyntaxError")
    ELSE IF reply.envelope.success /\ reply.envelope.data # NoAnalysis
         THEN [st EXCEPT !.aiAnalysis = reply.envelope.data, !.aiLoading = FALSE]
         ELSE [st EXCEPT !.aiError = OrElse(ErrorMessage(reply.envelope),
                                            "Failed to analyze stock. Please try again."),
                         !.aiLoading = FALSE]

AnalysisBody(a, reply) ==
    /\ a \in BagToSet(analyses)
    /\ a.phase = "body"
    /\ dashboard' = AnalysisOutcome(dashboard, reply)
    /\ analyses' = analyses (-) SetToBag({a})
    /\ UNCHANGED <<marketLoads, loadSerial, dashFollows>>
    /\ StockFrame

StockNext ==
    \/ DashboardMount
    \/ DashboardRetry
    \/ DashboardRefresh
    \/ \E s \in marketLoads, r \in LoadReplies(dashFollows) : MarketDataSettled(s, r)
    \/ \E section \in Sections : setActiveSection(section)
    \/ \E stock \in Stocks : ListedStockClicked(stock)
    \/ AnalyzeSelectedStock
    \/ Tick
    \/ \E a \in BagToSet(analyses) : AnalysisHeaders(a)
    \/ \E a \in BagToSet(analyses) : AnalysisFetchFails(a)
    \/ \E a \in BagToSet(analyses) : AnalysisTimerFires(a)
    \/ \E a \in BagToSet(analyses) :
          \E r \in AnalysisReplies(a.stock) : AnalysisBody(a, r)

\* ================================================================ AIInsights
Tabs == {"sentiment", "predict", "news", "anomalies", "portfolio", "alerts", "explain"}

\* tabs[...].requiresMarket
RequiresMarket(tab) == tab \notin {"anomalies", "portfolio"}

\* The endpoint each loader posts to.
Endpoint(tab) ==
    CASE tab = "news" -> "news-impact"
      [] tab = "portfolio" -> "portfolio-advice"
      [] tab = "alerts" -> "smart-alerts"
      [] OTHER -> tab

\* The markets the parent may pass as selectedMarket.
InsightMarkets == {NoMarket, P1, P2}

NoInsight == [endpoint |-> null, market |-> null]

\* The data the AI service answers with: for this endpoint, about this market
\* (or about the market list, for the two tabs that need no market).
InsightData(endpoint, marketId) == [endpoint |-> endpoint, market |-> marketId]

InsightRequest(tab, market) ==
    [tab |-> tab, endpoint |-> Endpoint(tab),
     market |-> IF RequiresMarket(tab) THEN market.id ELSE "markets"]

InitialInsights ==
    [isOpen |-> FALSE, activeTab |-> "sentiment", loading |-> FALSE, error |-> null,
     results |-> [t \in Tabs |-> NoInsight], selectedMarket |-> NoMarket]

InsightsInit ==
    /\ insights = InitialInsights
    /\ insightsInFlight = EmptyBag
    /\ visitedTabs = {"sentiment"}

\* The floating button, and the close button of the panel (AIInsightsPage has
\* neither: it is a page, shown while it is mounted).
setIsOpen(open) ==
    /\ root = "AIInsights"
    /\ insights.isOpen # open
    /\ insights' = [insights EXCEPT !.isOpen = open]
    /\ UNCHANGED <<insightsInFlight, visitedTabs>>
    /\ InsightsFrame

\* A tab button: disabled when the tab needs a market and none is selected.
setActiveTab(tab) ==
    /\ insights.isOpen
    /\ ~(RequiresMarket(tab) /\ insights.selectedMarket = NoMarket)
    /\ tab \in visitedTabs \/ Cardinality(visitedTabs) < MaxTabsVisited
    /\ insights' = [insights EXCEPT !.activeTab = tab]
    /\ visitedTabs' = visitedTabs \cup {tab}
    /\ UNCHANGED insightsInFlight
    /\ InsightsFrame

\* The parent renders the component with another selectedMarket.
InsightsMarketChanged(market) ==
    /\ market # insights.selectedMarket
    /\ insights' = [insights EXCEPT !.selectedMarket = market]
    /\ UNCHANGED <<insightsInFlight, visitedTabs>>
    /\ InsightsFrame

\* fetchData up to its await.
fetchDataStart(st) == [st EXCEPT !.loading = TRUE, !.error = null]

\* loadSentiment ... loadExplain, from the button of the active tab, which is
\* rendered when the panel is open and shows neither the spinner's content
\* gate nor an error.
LoadInsight(tab) ==
    /\ insights.isOpen
    /\ ~insights.loading
    /\ insights.error = null
    /\ insights.activeTab = tab
    /\ RequiresMarket(tab) => insights.selectedMarket # NoMarket
    /\ insights' = fetchDataStart(insights)
    /\ insightsInFlight' = insightsInFlight (+)
           SetToBag({InsightRequest(tab, insights.selectedMarket)})
    /\ UNCHANGED visitedTabs
    /\ InsightsFrame

\* What a fetch and its json() can come back with.
InsightReplies(r) ==
    Replies(InsightData(r.endpoint, r.market), NoInsight) \cup {Thrown("Unexpected token")}

\* Faulty variant: a failure clears the result of the kind that was asked for.
fetchDataOutcome_ClearsOnFailure(st, r, reply) ==
    IF reply.threw
    THEN [st EXCEPT !.error = "Failed to connect to AI service", !.loading = FALSE,
                    !.results[r.tab] = NoInsight]
    ELSE IF reply.envelope.success
         THEN [st EXCEPT !.results[r.tab] = reply.envelope.data, !.loading = FALSE]
         ELSE [st EXCEPT !.error = OrElse(ErrorMessage(reply.envelope),
                                          "Failed to fetch data"),
                         !.loading = FALSE,
                         !.results[r.tab] = NoInsight]

\* fetchData after its awaits.
fetchDataOutcome(st, r, reply) ==
    IF reply.threw
    THEN [st EXCEPT !.error = "Failed to connect to AI service", !.loading = FALSE]
    ELSE IF reply.envelope.success
         THEN [st EXCEPT !.results[r.tab] = reply.envelope.data, !.loading = FALSE]
         ELSE [st EXCEPT !.error = OrElse(ErrorMessage(reply.envelope),
                                          "Failed to fetch data"),
                         !.loading = FALSE]

InsightSettled(r, reply) ==
    /\ r \in BagToSet(insightsInFlight)
    /\ insights' = fetchDataOutcome(insights, r, reply)
    /\ insightsInFlight' = insightsInFlight (-) SetToBag({r})
    /\ UNCHANGED visitedTabs
    /\ InsightsFrame

InsightsNext ==
    \/ \E open \in BOOLEAN : setIsOpen(open)
    \/ \E tab \in Tabs : setActiveTab(tab)
    \/ \E market \in InsightMarkets : InsightsMarketChanged(market)
    \/ \E tab \in Tabs : LoadInsight(tab)
    \/ \E r \in BagToSet(insightsInFlight) :
          \E reply \in InsightReplies(r) : InsightSettled(r, reply)

\* ------------------------------------------ StockDashboard: the search section
\* What the search box can hold: nothing, a blank, a symbol in lower case,
\* and the symbols of the popular-stock buttons.
TCS == <<"T", "C", "S">>
INFY == <<"I", "N", "F", "Y">>
PopularStocks == {TCS, INFY}
SearchTexts == {<<>>, <<" ">>, <<"t", "c", "s">>} \cup PopularStocks

\* String.prototype.toUpperCase
UpperChar(c) ==
    CASE c = "t" -> "T" [] c = "c" -> "C" [] c = "s" -> "S" [] OTHER -> c

ToUpperCase(s) == [i \in 1..Len(s) |-> UpperChar(s[i])]

\* The quote the back end holds for a symbol.
QuoteData(symbol) == [symbol |-> symbol]

NoQuote == [symbol |-> <<>>]

InitialSearch == [searchQuery |-> <<>>, searchResults |-> <<>>, searchLoading |-> FALSE]

SearchInit == search = InitialSearch /\ searchInFlight = EmptyBag

\* onChange of the search box.
setSearchQuery(text) ==
    /\ text # search.searchQuery
    /\ search' = [search EXCEPT !.searchQuery = text]
    /\ UNCHANGED searchInFlight
    /\ SearchFrame

\* handleSearch up to its await, as created by the render whose searchQuery
\* was query: the state it leaves, and the quote requests it issues.
StockSearchStart(st, query) ==
    IF Trim(query) = <<>> THEN st ELSE [st EXCEPT !.searchLoading = TRUE]

StockSearchRequests(query) ==
    IF Trim(query) = <<>> THEN EmptyBag ELSE SetToBag({ToUpperCase(query)})

\* Enter in the search box, or the Search button.
SearchSubmitted ==
    /\ Trim(search.searchQuery) # <<>>
    /\ BagCardinality(searchInFlight) < MaxInFlight
    /\ search' = StockSearchStart(search, search.searchQuery)
    /\ searchInFlight' = searchInFlight (+) StockSearchRequests(search.searchQuery)
    /\ SearchFrame

\* A popular-stock button: setSearchQuery(symbol); handleSearch(). The
\* handleSearch that runs is the one of the render that drew the button: it
\* reads the searchQuery of that render, not the symbol just set.
PopularStockClicked(symbol) ==
    /\ BagCardinality(searchInFlight) < MaxInFlight
    /\ search' = StockSearchStart([search EXCEPT !.searchQuery = symbol],
                                  search.searchQuery)
    /\ searchInFlight' = searchInFlight (+) StockSearchRequests(search.searchQuery)
    /\ SearchFrame

\* What the quote request can come back with.
QuoteReplies(symbol) ==
    Replies(QuoteData(symbol), NoQuote) \cup {Thrown("Unexpected token")}

\* handleSearch after its awaits.
StockSearchOutcome(st, reply) ==
    IF ~reply.threw /\ reply.envelope.success
    THEN [st EXCEPT !.searchResults = <<reply.envelope.data>>, !.searchLoading = FALSE]
    ELSE [st EXCEPT !.searchResults = <<>>, !.searchLoading = FALSE]

QuoteSettled(symbol, reply) ==
    /\ BagIn(symbol, searchInFlight)
    /\ search' = StockSearchOutcome(search, reply)
    /\ searchInFlight' = searchInFlight (-) SetToBag({symbol})
    /\ SearchFrame

SearchNext ==
    \/ \E text \in SearchTexts : setSearchQuery(text)
    \/ SearchSubmitted
    \/ \E symbol \in PopularStocks : PopularStockClicked(symbol)
    \/ \E symbol \in BagToSet(searchInFlight) :
          \E reply \in QuoteReplies(symbol) : QuoteSettled(symbol, reply)

\* ---------------------------------------------------- StockDashboard: the chat
\* What an input box can hold: nothing, a blank, a question.
ChatTexts == {<<>>, <<" ">>, <<"q">>}

\* A transcript entry: { role, content }. The content is what the user sent,
\* the response to it, or a fixed text of the component.
Message(role, kind, of) == [role |-> role, content |-> [kind |-> kind, of |-> of]]

UserMessage(text) == Message("user", "text", text)

\* data.data.response, the answer of the back end to a message.
ChatData(text) == [response |-> text]

NoChatData == [response |-> <<"undefined">>]

\* The messages submitted so far.
Submitted(messages) == {i \in 1..Len(messages) : messages[i].role = "user"}

InitialChat == [chatMessages |-> <<>>, chatInput |-> <<>>, chatLoading |-> FALSE]

ChatInit == chat = InitialChat /\ chatInFlight = EmptyBag

\* onChange of the chat input.
setChatInput(text) ==
    /\ text # chat.chatInput
    /\ chat' = [chat EXCEPT !.chatInput = text]
    /\ UNCHANGED chatInFlight
    /\ ChatFrame

\* sendChatMessage up to its await: Enter in the input, or the Send button.
sendChatMessage ==
    /\ Trim(chat.chatInput) # <<>>
    /\ Cardinality(Submitted(chat.chatMessages)) < MaxChatTurns
    /\ BagCardinality(chatInFlight) < MaxInFlight
    /\ chat' = [chat EXCEPT !.chatMessages = Append(@, UserMessage(chat.chatInput)),
                            !.chatInput = <<>>,
                            !.chatLoading = TRUE]
    /\ chatInFlight' = chatInFlight (+) SetToBag({chat.chatInput})
    /\ ChatFrame

\* What a chat request can come back with: fetch or json() rejects, an
\* envelope, or success without data (data.data.response then throws).
ChatReplies(text) ==
    Replies(ChatData(text), NoChatData)
    \cup {Thrown("Unexpected token"), Answered(Envelope(TRUE, NoChatData, NoError))}

\* sendChatMessage after its awaits.
sendChatMessageOutcome(st, reply) ==
    IF reply.threw \/ (reply.envelope.success /\ reply.envelope.data = NoChatData)
    THEN [st EXCEPT !.chatMessages =
                        Append(@, Message("assistant", "fixed",
                                          <<"Sorry, failed to get response.">>)),
                    !.chatLoading = FALSE]
    ELSE IF reply.envelope.success
         THEN [st EXCEPT !.chatMessages =
                             Append(@, Message("assistant", "response",
                                               reply.envelope.data.response)),
                         !.chatLoading = FALSE]
         ELSE [st EXCEPT !.chatLoading = FALSE]

ChatSettled(text, reply) ==
    /\ BagIn(text, chatInFlight)
    /\ chat' = sendChatMessageOutcome(chat, reply)
    /\ chatInFlight' = chatInFlight (-) SetToBag({text})
    /\ ChatFrame

ChatNext ==
    \/ \E text \in ChatTexts : setChatInput(text)
    \/ sendChatMessage
    \/ \E text \in BagToSet(chatInFlight) :
          \E reply \in ChatReplies(text) : ChatSettled(text, reply)

\* ------------------------------------------------------------------- AIChat
\* The apiKey prop: empty, or a key.
ApiKeys == {"", "sk-1"}

\* The markets the parent may pass as selectedMarket.
ChatMarkets == {NoMarket, P1}

\* customMessage of sendMessage: undefined (Send, Enter) or a quick question.
NoCustomMessage == <<>>
QuickQuestion == <<"Explain this market to a beginner">>
CustomMessages == {NoCustomMessage, QuickQuestion}

\* A request of AIChat: /api/ai/chat with a message, /api/ai/analyze with the
\* market.
AIChatRequest(endpoint, about) == [endpoint |-> endpoint, about |-> about]

InitialAIChat(key) ==
    [isOpen |-> FALSE, messages |-> <<>>, input |-> <<>>, loading |-> FALSE,
     showApiKeyInput |-> (key = ""), apiKey |-> key, selectedMarket |-> NoMarket]

AIChatInit(keys) ==
    /\ \E key \in keys : aiChat = InitialAIChat(key)
    /\ aiChatInFlight = EmptyBag

\* The chat (and not the button or the key form) is rendered.
ChatShown == aiChat.isOpen /\ ~aiChat.showApiKeyInput

\* The floating button and the close button.
AIChatSetIsOpen(open) ==
    /\ aiChat.isOpen # open
    /\ aiChat' = [aiChat EXCEPT !.isOpen = open]
    /\ UNCHANGED aiChatInFlight
    /\ AIChatFrame

\* "Save & Continue" (only with a key) and "Change API Key".
setShowApiKeyInput(show) ==
    /\ aiChat.isOpen
    /\ aiChat.showApiKeyInput # show
    /\ ~show => aiChat.apiKey # ""
    /\ aiChat' = [aiChat EXCEPT !.showApiKeyInput = show]
    /\ UNCHANGED aiChatInFlight
    /\ AIChatFrame

\* The parent renders the component with another apiKey (after
\* onApiKeyChange of the key form, or for a reason of its own).
ApiKeyChanged(key) ==
    /\ key # aiChat.apiKey
    /\ aiChat' = [aiChat EXCEPT !.apiKey = key]
    /\ UNCHANGED aiChatInFlight
    /\ AIChatFrame

\* The parent renders the component with another selectedMarket.
AIChatMarketChanged(market) ==
    /\ market # aiChat.selectedMarket
    /\ aiChat' = [aiChat EXCEPT !.selectedMarket = market]
    /\ UNCHANGED aiChatInFlight
    /\ AIChatFrame

\* onChange of the input, which is disabled while loading.
setInput(text) ==
    /\ ChatShown /\ ~aiChat.loading
    /\ text # aiChat.input
    /\ aiChat' = [aiChat EXCEPT !.input = text]
    /\ UNCHANGED aiChatInFlight
    /\ AIChatFrame

\* customMessage || input
MessageToSend(st, customMessage) ==
    IF customMessage = <<>> THEN st.input ELSE customMessage

\* Faulty variant: sendMessage without the test of apiKey.
sendMessageStart_NoKeyTest(st, customMessage) ==
    IF Trim(MessageToSend(st, customMessage)) = <<>> THEN st
    ELSE [st EXCEPT !.messages = Append(@, UserMessage(MessageToSend(st, customMessage))),
                    !.input = <<>>,
                    !.loading = TRUE]

\* sendMessage up to its await: the state it leaves.
sendMessageStart(st, customMessage) ==
    IF Trim(MessageToSend(st, customMessage)) = <<>> \/ st.apiKey = "" THEN st
    ELSE [st EXCEPT !.messages = Append(@, UserMessage(MessageToSend(st, customMessage))),
                    !.input = <<>>,
                    !.loading = TRUE]

\* Enter in the input, the Send button, or a quick question (shown while the
\* transcript is empty); all of them are disabled while loading.
sendMessage(customMessage) ==
    /\ ChatShown /\ ~aiChat.loading
    /\ customMessage # NoCustomMessage => aiChat.messages = <<>>
    /\ Cardinality(Submitted(aiChat.messages)) < MaxChatTurns
    /\ aiChat' = sendMessageStart(aiChat, customMessage)
    /\ aiChatInFlight' =
          IF aiChat'.loading
          THEN aiChatInFlight (+) SetToBag({
                  AIChatRequest("chat", MessageToSend(aiChat, customMessage))})
          ELSE aiChatInFlight
    /\ AIChatFrame

\* analyzeMarket up to its await: the state it leaves.
analyzeMarketStart(st) ==
    IF st.selectedMarket = NoMarket \/ st.apiKey = "" THEN st
    ELSE [st EXCEPT !.loading = TRUE,
                    !.messages = Append(@, Message("user", "analyze",
                                                   <<st.selectedMarket.id>>))]

\* The two "Analyze" buttons, disabled while loading.
analyzeMarket ==
    /\ ChatShown /\ ~aiChat.loading
    /\ Cardinality(Submitted(aiChat.messages)) < MaxChatTurns
    /\ aiChat' = analyzeMarketStart(aiChat)
    /\ aiChatInFlight' =
          IF aiChat'.loading
          THEN aiChatInFlight (+) SetToBag({
                  AIChatRequest("analyze", <<aiChat.selectedMarket.id>>)})
          ELSE aiChatInFlight
    /\ AIChatFrame

\* What a request of AIChat can come back with: fetch or json() rejects, an
\* envelope, or success without data (reading data.data.response or
\* data.data.analysis then throws).
AIChatReplies(r) ==
    Replies(ChatData(r.about), NoChatData)
    \cup {Thrown("Unexpected token"), Answered(Envelope(TRUE, NoChatData, NoError))}

\* sendMessage and analyzeMarket after their awaits.
AIChatOutcome(st, r, reply) ==
    LET said(kind, of) == [st EXCEPT !.messages = Append(@, Message("assistant", kind, of)),
                                     !.loading = FALSE]
    IN  IF reply.threw \/ (reply.envelope.success /\ reply.envelope.data = NoChatData)
        THEN said("fixed", <<"Error: Failed to connect to AI service">>)
        ELSE IF reply.envelope.success
             THEN said("response", reply.envelope.data.response)
             ELSE said("error",
                       <<OrElse(ErrorMessage(reply.envelope),
                                IF r.endpoint = "chat" THEN "Failed to get response"
                                ELSE "Failed to analyze")>>)

AIChatSettled(r, reply) ==
    /\ BagIn(r, aiChatInFlight)
    /\ aiChat' = AIChatOutcome(aiChat, r, reply)
    /\ aiChatInFlight' = aiChatInFlight (-) SetToBag({r})
    /\ AIChatFrame

AIChatNext ==
    \/ \E open \in BOOLEAN : AIChatSetIsOpen(open)
    \/ \E show \in BOOLEAN : setShowApiKeyInput(show)
    \/ \E key \in ApiKeys : ApiKeyChanged(key)
    \/ \E market \in ChatMarkets : AIChatMarketChanged(market)
    \/ \E text \in ChatTexts : setInput(text)
    \/ \E customMessage \in CustomMessages : sendMessage(customMessage)
    \/ analyzeMarket
    \/ \E r \in BagToSet(aiChatInFlight) :
          \E reply \in AIChatReplies(r) : AIChatSettled(r, reply)

AssistInit == SearchInit /\ ChatInit /\ AIChatInit({""})

\* ================================================================ composition
\* Every entry point starts as constructed; a behaviour follows one of them.
InitApp ==
    /\ root = "App"
    /\ \E p \in Panels : AppInit({p})
    /\ ProxyInit /\ AssistInit /\ DashboardInit("loadMarketData") /\ InsightsInit

InitProxy ==
    /\ root = "proxy"
    /\ AppInit({}) /\ ProxyInit /\ AssistInit /\ DashboardInit("loadMarketData") /\ InsightsInit

InitStock ==
    /\ root = "StockDashboard"
    /\ \E f \in Follows : DashboardInit(f)
    /\ AppInit({}) /\ ProxyInit /\ AssistInit /\ InsightsInit

InitInsights ==
    /\ root = "AIInsights"
    /\ AppInit({}) /\ ProxyInit /\ AssistInit /\ DashboardInit("loadMarketData") /\ InsightsInit

\* AIInsightsPage: the state, the tabs and fetchData of AIInsights, without
\* the panel's open and close buttons.
InitInsightsPage ==
    /\ root = "AIInsightsPage"
    /\ insights = [InitialInsights EXCEPT !.isOpen = TRUE]
    /\ insightsInFlight = EmptyBag
    /\ visitedTabs = {"sentiment"}
    /\ AppInit({}) /\ ProxyInit /\ AssistInit /\ DashboardInit("loadMarketData")

InitControllers == InitApp \/ InitStock \/ InitInsights

ControllersNext == AppNext \/ StockNext \/ InsightsNext

SpecApp == InitApp /\ [][AppNext]_vars

SpecProxy == InitProxy /\ [][ProxyNext]_vars

SpecStock == InitStock /\ [][StockNext]_vars

SpecInsights == InitInsights /\ [][InsightsNext]_vars

InitSearch ==
    /\ root = "StockSearch"
    /\ AppInit({}) /\ ProxyInit /\ AssistInit /\ DashboardInit("loadMarketData") /\ InsightsInit

InitChat ==
    /\ root = "StockChat"
    /\ AppInit({}) /\ ProxyInit /\ AssistInit /\ DashboardInit("loadMarketData") /\ InsightsInit

InitAIChat ==
    /\ root = "AIChat"
    /\ AppInit({}) /\ ProxyInit /\ DashboardInit("loadMarketData") /\ InsightsInit
    /\ SearchInit /\ ChatInit /\ AIChatInit(ApiKeys)

SpecSearch == InitSearch /\ [][SearchNext]_vars

SpecChats == (InitChat \/ InitAIChat) /\ [][ChatNext \/ AIChatNext]_vars

SpecAIChat == InitAIChat /\ [][AIChatNext]_vars

SpecInsightViews == (InitInsights \/ InitInsightsPage) /\ [][InsightsNext]_vars

\* The three fetch controllers: App, StockDashboard, AIInsights.
SpecControllers == InitControllers /\ [][ControllersNext]_vars

\* ===================================================================== claims
\* Steps of the App specification, named for the claims.
AppSettles(r, reply) == MarketsSettled(r, reply)

\* A completion takes its request out of the requests in flight.
AppCompletes == BagCardinality(appInFlight') < BagCardinality(appInFlight)

PanelCompletes(p) ==
    BagCardinality(panel'[p].inFlight) < BagCardinality(panel[p].inFlight)

AppIssues == BagCardinality(appInFlight') > BagCardinality(appInFlight)

PanelIsMounted == selectedMarket # NoMarket

\* ---------------------------------------------------------------------- C1
\* C1: in PriceChart and OrderBookView, every step in which the market prop
\* becomes a market with another id (a mount included) leaves selectedOutcome
\* equal to the id of the new market's first outcome, or null when it has no
\* outcomes, whatever was selected before.
C1_ResetOnMarketChange ==
    [][\A p \in tracked :
          (selectedMarket' # NoMarket /\ selectedMarket'.id # selectedMarket.id)
          => panel'[p].selectedOutcome =
                IF selectedMarket'.outcomes = <<>> THEN null
                ELSE selectedMarket'.outcomes[1].id]_appVars

\* The market went from P1, with its second outcome selected (the request for
\* it is still in flight), to P2, and the selection is P2's first outcome.
C1_Witness ==
    \E p \in tracked :
        /\ selectedMarket = P2
        /\ panel[p].selectedOutcome = "d"
        /\ BagIn(PanelRequest("polymarket", "b"), panel[p].inFlight)

\* ---------------------------------------------------------------------- C2
\* C2: a completion of loadMarkets / handleSearch whose call failed leaves
\* markets = [] and error a non-null string; a completion of loadCandles /
\* loadOrderBook whose call failed leaves candles = [] (orderBook = null) and
\* error a non-null string; every completion, failed or not, leaves that
\* component's loading false.
C2_FailedFetch ==
    [][/\ AppCompletes =>
            \A r \in BagToSet(appInFlight) :
            \A reply \in Replies(AppData(r), <<>>) :
               AppSettles(r, reply) =>
                  /\ loading' = FALSE
                  /\ (reply.threw \/ ~reply.envelope.success) =>
                        (markets' = <<>> /\ error' # null /\ error' \in STRING)
       /\ \A p \in tracked : PanelCompletes(p) =>
            \A r \in BagToSet(panel[p].inFlight) :
            \A reply \in Replies(PanelData(p, r), EmptyResult(p)) :
               PanelSettled(p, r, reply) =>
                  /\ panel'[p].loading = FALSE
                  /\ (reply.threw \/ ~reply.envelope.success) =>
                        /\ panel'[p].data = EmptyResult(p)
                        /\ panel'[p].error # null
                        /\ panel'[p].error \in STRING]_appVars

\* A search failed (markets is empty, the banner shows) while the panel of the
\* market selected before shows the error of its own failed fetch.
C2_Witness ==
    \E p \in tracked :
        /\ appMounted /\ ~loading /\ error # null /\ markets = <<>>
        /\ appInFlight = EmptyBag
        /\ PanelIsMounted
        /\ ~panel[p].loading /\ panel[p].error # null
        /\ panel[p].data = EmptyResult(p)
        /\ panel[p].inFlight = EmptyBag

\* ---------------------------------------------------------------------- C4
\* C4: nothing cancels a superseded request and nothing checks a response
\* against the current selection: a step that is not the completion of a
\* request leaves every request of a still-mounted component in flight, and a
\* successful completion stores the data of its own request, also when the
\* selection has moved on. So the state of C4_Witness is reachable.
Subbag(a, b) == \A x \in BagToSet(a) : CopiesIn(x, a) <= CopiesIn(x, b)

C4_NoCancelNoGuard ==
    [][/\ BagCardinality(appInFlight') >= BagCardinality(appInFlight)
            => Subbag(appInFlight, appInFlight')
       /\ \A p \in tracked :
            /\ (PanelIsMounted /\ PanelIsMounted'
                    /\ BagCardinality(panel'[p].inFlight)
                          >= BagCardinality(panel[p].inFlight))
                  => Subbag(panel[p].inFlight, panel'[p].inFlight)
            /\ PanelCompletes(p) =>
                 \A r \in BagToSet(panel[p].inFlight) :
                 \A reply \in Replies(PanelData(p, r), EmptyResult(p)) :
                    (PanelSettled(p, r, reply) /\ ~PanelCall(p, reply).threw)
                       => panel'[p].data = PanelData(p, r)
       /\ AppCompletes =>
            \A r \in BagToSet(appInFlight) :
            \A reply \in Replies(AppData(r), <<>>) :
               (AppSettles(r, reply) /\ ~AppCall(r, reply).threw)
                  => markets' = AppData(r)]_appVars

StalePanel(p) ==
    /\ PanelIsMounted
    /\ ~Falsy(panel[p].selectedOutcome)
    /\ panel[p].data # EmptyResult(p)
    /\ panel[p].data # PanelData(p, PanelRequest(exchange, panel[p].selectedOutcome))

StaleMarkets ==
    /\ markets # <<>>
    /\ \A i \in 1..Len(markets) :
          \A j \in 1..Len(FetchMarketsData(exchange)) :
             markets[i].id # FetchMarketsData(exchange)[j].id

\* No request is in flight, the list is the one of the exchange selected
\* before, and the panel holds the data of an outcome selected before.
C4_Witness ==
    \E p \in tracked :
        /\ appInFlight = EmptyBag
        /\ panel[p].inFlight = EmptyBag
        /\ ~loading /\ ~panel[p].loading
        /\ StaleMarkets
        /\ StalePanel(p)

\* ---------------------------------------------------------------------- C5
StaysMounted == PanelIsMounted /\ PanelIsMounted'

FirstOutcomeId(m) == IF m.outcomes = <<>> THEN null ELSE m.outcomes[1].id

\* C5 as claimed: whenever the selected market or the selected exchange
\* changes while the panels are mounted, each panel resets selectedOutcome to
\* the first outcome of the selected market and issues a new fetch for it.
C5_Original ==
    [][\A p \in tracked :
          (StaysMounted /\ (selectedMarket' # selectedMarket \/ exchange' # exchange))
          => /\ panel'[p].selectedOutcome = FirstOutcomeId(selectedMarket')
             /\ panel'[p].inFlight = panel[p].inFlight (+) SetToBag({
                    PanelRequest(exchange', FirstOutcomeId(selectedMarket'))})]_appVars

\* C5 amended: while the panels stay mounted, a change of the selected
\* market (to another id) sets selectedOutcome to the new market's first
\* outcome id, null if it has none, and issues one fetch for it on the current
\* exchange when that id is non-empty and differs from the outcome selected
\* before, and none otherwise; a change of the selected exchange keeps
\* selectedOutcome as it is and issues one fetch for it on the new exchange
\* when it is non-empty, and none otherwise.
C5_Amended ==
    [][\A p \in tracked :
          /\ (StaysMounted /\ selectedMarket'.id # selectedMarket.id
                  /\ exchange' = exchange)
               => /\ panel'[p].selectedOutcome = FirstOutcomeId(selectedMarket')
                  /\ panel'[p].inFlight =
                        IF /\ panel'[p].selectedOutcome # null
                           /\ panel'[p].selectedOutcome # ""
                           /\ panel'[p].selectedOutcome # panel[p].selectedOutcome
                        THEN panel[p].inFlight (+) SetToBag({
                                PanelRequest(exchange, panel'[p].selectedOutcome)})
                        ELSE panel[p].inFlight
          /\ (StaysMounted /\ exchange' # exchange
                  /\ selectedMarket' = selectedMarket)
               => /\ panel'[p].selectedOutcome = panel[p].selectedOutcome
                  /\ panel'[p].inFlight =
                        IF /\ panel[p].selectedOutcome # null
                           /\ panel[p].selectedOutcome # ""
                        THEN panel[p].inFlight (+) SetToBag({
                                PanelRequest(exchange', panel[p].selectedOutcome)})
                        ELSE panel[p].inFlight]_appVars

\* The exchange went from polymarket to kalshi with P1's second outcome
\* selected: the selection is kept and its candles (order book) are asked of
\* kalshi.
C5_Witness ==
    \E p \in tracked :
        /\ selectedMarket = P1
        /\ exchange = "kalshi"
        /\ panel[p].selectedOutcome = "b"
        /\ panel[p].inFlight = SetToBag({PanelRequest("kalshi", "b")})

\* --------------------------------------------------------------------- C10
AllSpaces(q) == \A i \in 1..Len(q) : IsSpace(q[i])

\* C10: handleSearch with an empty or all-whitespace query issues fetchMarkets
\* for the current exchange and no searchMarkets; with any other query it
\* issues searchMarkets, with the query as typed, and no fetchMarkets.
C10_SearchDispatch ==
    [][AppIssues => \A q \in Queries :
          handleSubmit(q) =>
             appInFlight' = appInFlight (+) SetToBag({
                 IF AllSpaces(q)
                 THEN AppRequest("fetchMarkets", exchange, <<>>)
                 ELSE AppRequest("searchMarkets", exchange, q)})]_appVars

\* A search for "b" is in flight next to the listing fetch that a blank query
\* started after the first listing had arrived.
C10_Witness ==
    /\ markets # <<>>
    /\ BagIn(AppRequest("searchMarkets", exchange, <<"b">>), appInFlight)
    /\ BagIn(AppRequest("fetchMarkets", exchange, <<>>), appInFlight)

\* ---------------------------------------------------------------------- C6
Handled == proxy.pc = "done"

UpstreamAnswered == proxy.upstreamResponse # NoResponse

\* C6 as claimed: whenever the upstream returned a response to a forwarded
\* request, the proxy answers with the upstream's status and with the same
\* JSON body (read here as: the same JSON value).
C6_Original ==
    (Handled /\ UpstreamAnswered)
    => /\ Len(proxy.responses) = 1
       /\ proxy.responses[1].status = proxy.upstreamResponse.status
       /\ JsonParse(proxy.upstreamResponse.body).ok
       /\ JsonParse(proxy.responses[1].body) = JsonParse(proxy.upstreamResponse.body)

IsJsonText(text) ==
    LET toks == SelectSeq(text, LAMBDA tok : tok # " ")
    IN  \/ toks \in {<<"true">>, <<"false">>, <<"null">>, <<"{", "}">>}
        \/ toks \in {<<"{", "\"success\"", ":", v, "}">> : v \in {"true", "false", "null"}}

\* C6 amended: whenever the upstream returned a response whose body parses as
\* JSON, the proxy answers once, with the upstream's status and with the
\* serialisation of the parsed value (the upstream's text less its white
\* space: the same JSON value, not the same bytes); when the body does not
\* parse as JSON the proxy answers 500 with the failure envelope.
C6_Amended ==
    (Handled /\ UpstreamAnswered)
    => /\ Len(proxy.responses) = 1
       /\ IF IsJsonText(proxy.upstreamResponse.body)
          THEN /\ proxy.responses[1].status = proxy.upstreamResponse.status
               /\ proxy.responses[1].body =
                     SelectSeq(proxy.upstreamResponse.body, LAMBDA tok : tok # " ")
          ELSE /\ proxy.responses[1].status = 500
               /\ proxy.responses[1].body =
                     <<"{", "\"success\"", ":", "false", ",", "\"error\"", ":",
                       "{", "\"message\"", ":", "Unexpected token", "}", "}">>

\* The upstream answered 404 with a JSON body that has white space in it, and
\* the proxy relayed 404 with the same value in other bytes.
C6_Witness ==
    /\ Handled
    /\ proxy.upstreamResponse.status = 404
    /\ proxy.upstreamResponse.body =
          <<"{", " ", "\"success\"", ":", " ", "false", " ", "}">>
    /\ proxy.responses = <<[status |-> 404,
                            body |-> <<"{", "\"success\"", ":", "false", "}">>]>>

\* ---------------------------------------------------------------------- C7
\* C7: when the upstream call throws (the network fails, or fetch rejects the
\* request), the proxy has answered exactly once when the handler is done,
\* with status 500 and the body {success: false, error: {message}}; and no
\* request ever gets more than one response.
C7_FailureEnvelope ==
    /\ Len(proxy.responses) <= 1
    /\ (Handled /\ ~UpstreamAnswered /\ ~IsPreflight(proxy.variant, proxy.method))
       => /\ Len(proxy.responses) = 1
          /\ proxy.responses[1].status = 500
          /\ \E m \in {"fetch failed", "Request with GET/HEAD method cannot have body"} :
                proxy.responses[1].body =
                    <<"{", "\"success\"", ":", "false", ",", "\"error\"", ":",
                      "{", "\"message\"", ":", m, "}", "}">>

\* A POST was forwarded, the network failed, and the one answer is the 500.
C7_Witness ==
    /\ Handled
    /\ proxy.method = "POST"
    /\ Len(proxy.upstream) = 1
    /\ ~UpstreamAnswered
    /\ Len(proxy.responses) = 1
    /\ proxy.responses[1].status = 500

\* ---------------------------------------------------------------------- C8
\* C8: in api/proxy.js an OPTIONS request is answered 200 at once and no
\* upstream request is ever issued for it; any other request has exactly one
\* upstream request issued for it, from the first step of the handler on.
C8_Preflight ==
    (proxy.pc # "idle" /\ proxy.variant = "cors")
    => IF proxy.method = "OPTIONS"
       THEN /\ proxy.pc = "done"
            /\ proxy.upstream = <<>>
            /\ proxy.responses = <<[status |-> 200, body |-> <<>>]>>
       ELSE Len(proxy.upstream) = 1

\* A preflight was answered without an upstream request.
C8_Witness ==
    /\ proxy.variant = "cors"
    /\ proxy.method = "OPTIONS"
    /\ Handled
    /\ proxy.upstream = <<>>
    /\ Len(proxy.responses) = 1

\* ---------------------------------------------------------------------- C3
\* A step that issues a request of App.loadMarkets.
IssuesLoadMarkets ==
    \E r \in BagToSet(appInFlight') :
        /\ r.kind = "fetchMarkets"
        /\ CopiesIn(r, appInFlight') > CopiesIn(r, appInFlight)

\* C3 for App.loadMarkets: the flags are set in the step that issues the
\* request; the completion either puts the response's list into markets and
\* sets no error, or sets the error and puts no list; loading is false after.
C3_App ==
    /\ IssuesLoadMarkets => (loading' = TRUE /\ error' = null)
    /\ \A r \in BagToSet(appInFlight) : \A reply \in Replies(AppData(r), <<>>) :
          (r.kind = "fetchMarkets" /\ MarketsSettled(r, reply)) =>
             /\ loading' = FALSE
             /\ IF ~fetchMarkets(reply).threw
                THEN markets' = AppData(r) /\ error' = error
                ELSE error' # null /\ markets' # AppData(r)

\* C3 for AIInsights.fetchData.
C3_Insights ==
    /\ insightsInFlight' # insightsInFlight /\ Subbag(insightsInFlight, insightsInFlight')
          => (insights'.loading = TRUE /\ insights'.error = null)
    /\ \A r \in BagToSet(insightsInFlight) : \A reply \in InsightReplies(r) :
          InsightSettled(r, reply) =>
             /\ insights'.loading = FALSE
             /\ (insights'.results[r.tab] = InsightData(r.endpoint, r.market)
                    /\ ~reply.threw /\ reply.envelope.success)
                # (insights'.error # null)

\* C3 for StockDashboard.loadMarketData: "result populated" is that one of the
\* five data states took the data of its response.
C3_Dashboard ==
    /\ marketLoads' # marketLoads /\ marketLoads \subseteq marketLoads'
          => (dashboard'.loading = TRUE /\ dashboard'.error = null)
    /\ \A serial \in marketLoads : \A replies \in LoadReplies(dashFollows) :
          MarketDataSettled(serial, replies) =>
             /\ dashboard'.loading = FALSE
             /\ (\E d \in DataStates :
                    replies[d] = "success" /\ dashboard'.data[d] = DataOf(serial))
                # (dashboard'.error # null)

\* C3: every invocation of App.loadMarkets, AIInsights.fetchData and
\* StockDashboard.loadMarketData sets loading true and error null in the step
\* that issues its network call; its completion does exactly one of
\* "result populated" and "error message set"; and loading is false after the
\* completion on every path.
C3_FetchOrder == [][C3_App /\ C3_Insights /\ C3_Dashboard]_vars

\* ---------------------------------------------------------------------- C9
\* C9: an analyzeStock request that is not completed 45 seconds after it was
\* issued is aborted (no invocation is still awaiting past that time), and the
\* abort leaves aiError = 'Analysis timed out. Please try again.' and
\* aiLoading = false.
C9_TimeoutAborts ==
    /\ [](\A a \in BagToSet(analyses) : a.age <= AnalysisTimeoutMs)
    /\ [][\A a \in BagToSet(analyses) :
             AnalysisTimerFires(a) =>
                /\ dashboard'.aiError = "Analysis timed out. Please try again."
                /\ dashboard'.aiLoading = FALSE]_vars

\* --------------------------------------------------------------------- C11
\* C11: in PriceChart and OrderBookView, while the market shown has no
\* outcomes selectedOutcome is null; no step that ends with selectedOutcome
\* null issues a request of that panel; and no request for a null outcome is
\* ever in flight.
C11_NullSuppressesFetch ==
    [][\A p \in tracked :
          /\ (PanelIsMounted' /\ selectedMarket'.outcomes = <<>>)
                => panel'[p].selectedOutcome = null
          /\ panel'[p].selectedOutcome = null
                => Subbag(panel'[p].inFlight, panel[p].inFlight)
          /\ \A r \in BagToSet(panel'[p].inFlight) : r.outcome # null]_appVars

\* The market without outcomes is shown, the exchange was changed under it,
\* and the panel has asked for nothing.
C11_Witness ==
    \E p \in tracked :
        /\ selectedMarket = K2
        /\ exchange = "polymarket"
        /\ panel[p].selectedOutcome = null
        /\ panel[p].inFlight = EmptyBag

\* --------------------------------------------------------------------- C12
\* App with both of its panels followed at once.
InitAppPanels ==
    /\ root = "App"
    /\ AppInit(Panels)
    /\ ProxyInit /\ AssistInit /\ DashboardInit("loadMarketData") /\ InsightsInit

SpecAppPanels == InitAppPanels /\ [][AppNext]_vars

\* C12: there is one selected market, and while the panels are shown
\* PriceChart and OrderBookView hold the same selectedOutcome.
C12_OneSelectedOutcome ==
    (PanelIsMounted /\ tracked = Panels)
    => panel["PriceChart"].selectedOutcome = panel["OrderBookView"].selectedOutcome

\* --------------------------------------------------------------------- C13
\* A reply that is a failure: the transport threw, or success is false.
Failed(reply) == reply.threw \/ ~reply.envelope.success

\* C13: the completion of a failed request (connection failure or
\* success: false) leaves a non-null error string in the state of the
\* component that issued it: App, PriceChart, OrderBookView, AIInsights and
\* StockDashboard (where one failed request of the five is a failed request).
C13_NoFailureDropped ==
    [][/\ AppCompletes =>
            \A r \in BagToSet(appInFlight) : \A reply \in Replies(AppData(r), <<>>) :
               (MarketsSettled(r, reply) /\ Failed(reply))
                  => (error' # null /\ error' # "")
       /\ \A p \in tracked : PanelCompletes(p) =>
            \A r \in BagToSet(panel[p].inFlight) :
            \A reply \in Replies(PanelData(p, r), EmptyResult(p)) :
               (PanelSettled(p, r, reply) /\ Failed(reply))
                  => (panel'[p].error # null /\ panel'[p].error # "")
       /\ \A r \in BagToSet(insightsInFlight) : \A reply \in InsightReplies(r) :
            (InsightSettled(r, reply) /\ Failed(reply))
               => (insights'.error # null /\ insights'.error # "")
       /\ \A serial \in marketLoads : \A replies \in LoadReplies(dashFollows) :
            (MarketDataSettled(serial, replies)
                /\ \E d \in DataStates : replies[d] # "success")
               => (dashboard'.error # null /\ dashboard'.error # "")]_vars

\* --------------------------------------------------------------------- C14
\* Requests in flight of App and its panels, against the bound on them.
AppRoom(n) ==
    BagCardinality(appInFlight) + BagCardinality(panel["PriceChart"].inFlight)
        + BagCardinality(panel["OrderBookView"].inFlight) + n <= MaxInFlight

\* C14: an error state (error set, loading false) of a fetch controller is
\* never a dead end: in each such state of App, of a mounted panel, of
\* AIInsights and of StockDashboard a user action is available that starts a
\* new fetch, which clears the error.
C14_ErrorIsNoDeadEnd ==
    /\ (appMounted /\ error # null /\ ~loading /\ AppRoom(1))
          => ENABLED (Retry /\ error' = null /\ loading')
    /\ \A p \in tracked :
          (PanelIsMounted /\ panel[p].error # null /\ ~panel[p].loading /\ AppRoom(2))
             => ENABLED (\E exch \in Exchanges :
                            /\ handleExchangeChange(exch)
                            /\ panel'[p].error = null /\ panel'[p].loading)
    /\ (insights.error # null /\ ~insights.loading)
          => ENABLED (\E tab \in Tabs :
                         LoadInsight(tab) /\ insights'.error = null /\ insights'.loading)
    /\ (dashboard.mounted /\ dashboard.error # null /\ ~dashboard.loading
           /\ loadSerial < MaxLoads)
          => ENABLED (DashboardRetry /\ dashboard'.error = null /\ dashboard'.loading)

\* What makes the error state of AIInsights a dead end: no step of the
\* component changes an error that is set.
AIInsights_ErrorStays == [][insights.error # null => insights'.error = insights.error]_vars

\* The controllers that load on a trigger: App with a panel, AIInsights, and
\* StockDashboard's loadMarketData (without its analyses, and with the five
\* replies of a load alike).
MarketDataNext ==
    \/ DashboardMount
    \/ DashboardRetry
    \/ DashboardRefresh
    \/ \E s \in marketLoads, r \in LoadReplies(dashFollows) : MarketDataSettled(s, r)
    \/ \E section \in Sections : setActiveSection(section)

InitLoaders ==
    \/ InitApp
    \/ InitInsights
    \/ /\ root = "StockDashboard" /\ DashboardInit("analyzeStock")
       /\ AppInit({}) /\ ProxyInit /\ AssistInit /\ InsightsInit

LoadersNext == AppNext \/ InsightsNext \/ MarketDataNext

SpecLoaders == InitLoaders /\ [][LoadersNext]_vars

\* --------------------------------------------------------------------- C15
\* The number of requests each controller has in flight: App, the two
\* panels, AIInsights, and StockDashboard's loads and analyses.
InFlightCounts ==
    <<BagCardinality(appInFlight),
      BagCardinality(panel["PriceChart"].inFlight),
      BagCardinality(panel["OrderBookView"].inFlight),
      BagCardinality(insightsInFlight),
      Cardinality(marketLoads),
      BagCardinality(analyses)>>

\* C15: there is no automatic retry. A step that completes a request (with a
\* failure or not) or unmounts its controller issues no request in any
\* controller; requests are only issued by triggers (mount, user event,
\* change of selection or exchange), once per controller and trigger.
C15_NoAutomaticRetry ==
    [][/\ (\E i \in 1..6 : InFlightCounts'[i] < InFlightCounts[i])
             => \A j \in 1..6 : InFlightCounts'[j] <= InFlightCounts[j]
       /\ \A j \in 1..6 : InFlightCounts'[j] <= InFlightCounts[j] + 1
       /\ Subbag(appInFlight, appInFlight') \/ Subbag(appInFlight', appInFlight)
       /\ \A p \in Panels :
             \/ Subbag(panel[p].inFlight, panel'[p].inFlight)
             \/ Subbag(panel'[p].inFlight, panel[p].inFlight)]_vars

\* A failed completion behind, a panel mounted, and nothing in flight.
C15_Witness ==
    /\ appMounted /\ error # null /\ ~loading /\ PanelIsMounted
    /\ \E p \in tracked : panel[p].error # null /\ ~panel[p].loading
    /\ \A i \in 1..6 : InFlightCounts[i] = 0

\* --------------------------------------------------------------------- C16
\* C16: a successful completion of loadMarkets or handleSearch leaves markets
\* equal to the list of that response (the list before is replaced, not
\* merged) and selectedMarket null.
C16_ListReplaced ==
    [][AppCompletes =>
          \A r \in BagToSet(appInFlight) : \A reply \in Replies(AppData(r), <<>>) :
             (MarketsSettled(r, reply) /\ ~Failed(reply))
                => /\ markets' = reply.envelope.data
                   /\ selectedMarket' = NoMarket]_vars

\* A search has completed with success over a loaded list: the list is the
\* search's.
C16_Witness ==
    /\ exchange = "polymarket" /\ markets = SearchMarketsData("polymarket", <<"b">>)
    /\ selectedMarket = NoMarket /\ ~loading /\ error = null
    /\ appInFlight = EmptyBag

\* --------------------------------------------------------------------- C17
\* The message the claim expects of a failure envelope.
ExpectedMessage(env, defaultMessage) ==
    IF env.error.present /\ env.error.message # "" THEN env.error.message
    ELSE defaultMessage

\* What the claim expects of an api function for an envelope.
Expected(res, env, defaultMessage) ==
    IF env.success THEN res = [threw |-> FALSE, data |-> env.data]
    ELSE /\ res.threw /\ res.isError
         /\ res.message = ExpectedMessage(env, defaultMessage)

C18_TimerEndsAnalysis ==
    \A a \in BagToSet(analyses) :
       a.age >= AnalysisTimeoutMs
          => ENABLED (AnalysisTimerFires(a) /\ ~dashboard'.aiLoading)

\* --------------------------------------------------------------------- C19
\* The pair a panel's fetch effect depends on.
FetchDeps(p) == <<panel[p].selectedOutcome, exchange>>

\* C19 as claimed: every change of (selectedOutcome, exchange) of a panel to
\* a pair with non-null selectedOutcome issues exactly one fetch, for that
\* outcome on that exchange; without a change of the pair (a click on the
\* tab of the selected outcome) nothing is issued.
C19_Original ==
    [][\A p \in tracked :
          /\ (FetchDeps(p)' # FetchDeps(p) /\ panel'[p].selectedOutcome # null)
                => panel'[p].inFlight = panel[p].inFlight (+) SetToBag({
                       PanelRequest(exchange', panel'[p].selectedOutcome)})
          /\ FetchDeps(p)' = FetchDeps(p)
                => Subbag(panel'[p].inFlight, panel[p].inFlight)]_appVars

\* C19 amended: every change of the pair to one whose selectedOutcome is
\* neither null nor the empty string issues exactly one fetch, for that
\* outcome on that exchange; a change to a pair whose selectedOutcome is
\* null or empty issues none, and neither does a step without a change of
\* the pair (a click on the tab of the selected outcome).
C19_Amended ==
    [][\A p \in tracked :
          /\ (FetchDeps(p)' # FetchDeps(p) /\ panel'[p].selectedOutcome \notin {null, ""})
                => panel'[p].inFlight = panel[p].inFlight (+) SetToBag({
                       PanelRequest(exchange', panel'[p].selectedOutcome)})
          /\ (FetchDeps(p)' = FetchDeps(p) \/ panel'[p].selectedOutcome \in {null, ""})
                => Subbag(panel'[p].inFlight, panel[p].inFlight)]_appVars

\* P1's second outcome was selected by its tab and is the only request in
\* flight, for that outcome on polymarket, while the first fetch is answered.
C19_Witness ==
    \E p \in tracked :
       /\ selectedMarket = P1 /\ exchange = "polymarket"
       /\ panel[p].selectedOutcome = "b"
       /\ panel[p].inFlight = SetToBag({PanelRequest("polymarket", "b")})

\* --------------------------------------------------------------------- C20
\* C20: in AIInsights and AIInsightsPage the completion of a request for one
\* analysis kind changes nothing but that kind's result, and that only on
\* success, and the shared loading and error flags: the results of the six
\* other kinds stay, a failure changes no result, and the active tab, the
\* open flag and the market stay as they are.
C20_FetchDataFrame ==
    [][\A r \in BagToSet(insightsInFlight) :
       insightsInFlight' = insightsInFlight (-) SetToBag({r}) =>
       \A reply \in InsightReplies(r) :
          InsightSettled(r, reply) =>
             /\ \A t \in Tabs \ {r.tab} : insights'.results[t] = insights.results[t]
             /\ Failed(reply) => insights'.results = insights.results
             /\ ~Failed(reply) => insights'.results[r.tab] = reply.envelope.data
             /\ [insights' EXCEPT !.results = insights.results,
                                  !.loading = insights.loading,
                                  !.error = insights.error] = insights]_vars

\* AIInsightsPage holds the results of two kinds, one of them about P2, and
\* then a request of the first kind about P1 has failed: both results stay.
C20_Witness ==
    /\ root = "AIInsightsPage"
    /\ insights.results["sentiment"] = InsightData("sentiment", "p2")
    /\ insights.results["anomalies"] # NoInsight
    /\ insights.selectedMarket = P1 /\ insights.activeTab = "sentiment"
    /\ insights.error # null /\ ~insights.loading

\* --------------------------------------------------------------------- C21
\* C21: the completion of a loadMarketData is all or nothing on a failure of
\* the transport: when one of the five requests is rejected or its body does
\* not parse, none of the five data states changes and error is 'Failed to
\* load market data'; otherwise each data state is replaced exactly when its
\* own response has success true.
C21_LoadAllOrNothing ==
    [][\A serial \in marketLoads :
       marketLoads' = marketLoads \ {serial} =>
       \A replies \in LoadReplies(dashFollows) :
          MarketDataSettled(serial, replies) =>
             IF \E d \in DataStates : replies[d] \in {"rejected", "unparseable"}
             THEN /\ dashboard'.data = dashboard.data
                  /\ dashboard'.error = "Failed to load market data"
             ELSE \A d \in DataStates :
                     dashboard'.data[d] =
                        IF replies[d] = "success" THEN DataOf(serial)
                        ELSE dashboard.data[d]]_vars

\* --------------------------------------------------------------------- C22
\* C22: whenever no market request of App is in flight, a set error comes
\* with an empty market list: the error banner is never shown over a
\* populated list, also after overlapping loads and searches.
C22_ErrorMeansNoMarkets ==
    (appInFlight = EmptyBag /\ error # null) => markets = <<>>

\* --------------------------------------------------------------------- C23
\* C23: in App and in AIInsights the loading flag is true in every state
\* where a request of the component is in flight, also when requests overlap.
C23_LoadingWhileInFlight ==
    /\ appInFlight # EmptyBag => loading
    /\ insightsInFlight # EmptyBag => insights.loading

\* The half of C23 that is about AIInsights.
C23_Insights == insightsInFlight # EmptyBag => insights.loading

\* --------------------------------------------------------------------- C24
\* C24: in every state of App selectedMarket is null or one of the markets
\* of the current list.
C24_SelectedIsListed ==
    selectedMarket = NoMarket \/ \E i \in 1..Len(markets) : markets[i] = selectedMarket

\* --------------------------------------------------------------------- C25
\* C25: whenever aiLoading is false and an analysis is held, it is the
\* analysis of the stock that is selected: the response to a superseded
\* analyzeStock is not shown for a stock selected after it.
C25_AnalysisOfSelectedStock ==
    (~dashboard.aiLoading /\ dashboard.aiAnalysis # NoAnalysis)
       => dashboard.aiAnalysis = AnalysisData(dashboard.selectedStock)

\* --------------------------------------------------------------------- C26
\* C26: a click on a popular-stock button issues one quote request, for the
\* symbol of that button, whatever the search box held before the click.
C26_PopularStockQuote ==
    [][\A symbol \in PopularStocks :
          PopularStockClicked(symbol)
             => searchInFlight' = searchInFlight (+) SetToBag({symbol})]_vars

\* --------------------------------------------------------------------- C27
\* C27: in AIInsights and AIInsightsPage every market-specific result that is
\* held (sentiment, prediction, news, alerts, explanation) was computed for
\* the market that is selected.
C27_ResultsOfSelectedMarket ==
    \A t \in Tabs :
       (RequiresMarket(t) /\ insights.results[t] # NoInsight)
          => insights.results[t].market = insights.selectedMarket.id

\* --------------------------------------------------------------------- C28
\* The last entry of a transcript is an assistant message appended to the
\* transcript held before.
AssistantAppended(before, after) ==
    /\ Len(after) = Len(before) + 1
    /\ SubSeq(after, 1, Len(before)) = before
    /\ after[Len(after)].role = "assistant"

\* C28 for the StockDashboard chat.
C28_StockChat ==
    /\ sendChatMessage
          => chat'.chatMessages = Append(chat.chatMessages, UserMessage(chat.chatInput))
    /\ chatInFlight' # chatInFlight =>
          \A text \in BagToSet(chatInFlight) : \A reply \in ChatReplies(text) :
              ChatSettled(text, reply)
              => /\ AssistantAppended(chat.chatMessages, chat'.chatMessages)
                 /\ ~chat'.chatLoading

\* C28 for AIChat.
C28_AIChat ==
    /\ \A customMessage \in CustomMessages :
          (sendMessage(customMessage) /\ aiChatInFlight' # aiChatInFlight)
          => aiChat'.messages = Append(aiChat.messages,
                                  UserMessage(MessageToSend(aiChat, customMessage)))
    /\ (analyzeMarket /\ aiChatInFlight' # aiChatInFlight)
          => /\ Len(aiChat'.messages) = Len(aiChat.messages) + 1
             /\ aiChat'.messages[Len(aiChat'.messages)].role = "user"
    /\ aiChatInFlight' # aiChatInFlight =>
          \A r \in BagToSet(aiChatInFlight) : \A reply \in AIChatReplies(r) :
              AIChatSettled(r, reply)
              => /\ AssistantAppended(aiChat.messages, aiChat'.messages)
                 /\ ~aiChat'.loading

\* C28: in AIChat and in the StockDashboard chat, the step that submits a
\* message appends it once, as a user message, to the transcript; the step
\* that completes its request (with success, with a failure reported by the
\* back end, or with a failed connection) appends exactly one assistant
\* message; and the loading flag is false after the completion.
C28_OneAnswerPerMessage == [][C28_StockChat /\ C28_AIChat]_vars

\* --------------------------------------------------------------------- C29
\* messages, input and loading are as they were, and nothing was issued.
AIChatUntouched ==
    /\ aiChat'.messages = aiChat.messages
    /\ aiChat'.input = aiChat.input
    /\ aiChat'.loading = aiChat.loading
    /\ aiChatInFlight' = aiChatInFlight

\* C29: no step of AIChat taken while apiKey is empty issues a request;
\* sendMessage with a blank message (or without a key) and analyzeMarket
\* without a selected market (or without a key) issue none and leave
\* messages, input and loading as they were.
C29_NoRequestWithoutKey ==
    [][/\ aiChat.apiKey = "" => Subbag(aiChatInFlight', aiChatInFlight)
       /\ \A customMessage \in CustomMessages :
            (/\ sendMessage(customMessage)
             /\ (aiChat.apiKey = "" \/ Trim(MessageToSend(aiChat, customMessage)) = <<>>))
            => AIChatUntouched
       /\ (analyzeMarket /\ (aiChat.apiKey = "" \/ aiChat.selectedMarket = NoMarket))
            => AIChatUntouched]_vars

\* The chat is shown with a question typed and a market selected while the
\* parent has taken the key away: Send, Enter and Analyze are there to be
\* used, and after an answered question nothing is in flight.
C29_Witness ==
    /\ ChatShown
    /\ aiChat.apiKey = ""
    /\ aiChat.selectedMarket = P1
    /\ Trim(aiChat.input) # <<>>
    /\ ~aiChat.loading
    /\ Len(aiChat.messages) = 2
    /\ aiChatInFlight = EmptyBag

\* --------------------------------------------------------------------- C30
OtherVariant(variant) == CHOOSE w \in Variants : w # variant

\* Where the other handler is with the request the proxy was given, the
\* upstream having done for it what it did for the proxy.
Twin ==
    LET start == ProxyStart(OtherVariant(proxy.variant), proxy.method,
                            proxy.url, proxy.body)
        heard == [start EXCEPT !.upstreamResponse = proxy.upstreamResponse]
    IN  IF start.pc = "done" \/ proxy.upstream = <<>> \/ proxy.pc = "fetching"
        THEN start
        ELSE IF proxy.pc = "parsing" THEN [heard EXCEPT !.pc = "parsing"]
        ELSE IF proxy.upstreamResponse = NoResponse
             THEN SendError(start, "fetch failed")
        ELSE Relay(heard)

\* C30: for every request whose method is not OPTIONS, api/proxy.js and the
\* plain proxy issue the same upstream request (target URL, method, body
\* present or not) and answer with the same status and body.
C30_ProxiesAgree ==
    (proxy.pc # "idle" /\ proxy.method # "OPTIONS")
    => /\ Twin.upstream = proxy.upstream
       /\ Twin.responses = proxy.responses
====
